---- MODULE Spec2Model ----
(***************************************************************************)
(* A model of wdanalysis (wdlyzer): the reconciliation of flattened        *)
(* Wikidata SPARQL rows into Format -> Signature -> ByteSequence records,  *)
(* with the linting ledger kept beside it.                                 *)
(*                                                                         *)
(* Strings that the code only compares are TLA+ strings.  Strings that the *)
(* code parses or normalizes (the signature pattern, the offset) are       *)
(* sequences of one-character strings, so that the conversions are         *)
(* computed.  A URI is the sequence of its "/"-separated segments.         *)
(***************************************************************************)
EXTENDS Integers, Sequences, FiniteSets, TLC

VARIABLES pc, results, idx, wikidataMapping, linter, panicked, summary, call

vars == <<pc, results, idx, wikidataMapping, linter, panicked, summary, call>>

(***************************************************************************)
(* Bounds of the model.                                                    *)
(***************************************************************************)
\* The longest row stream (len(results)) explored.
MaxRows == 3

(***************************************************************************)
(* Linting codes (validate.go, the iota block).                            *)
(***************************************************************************)
nle == "noLintingError"
offWDE01 == "offWDE01"
offWDE02 == "offWDE02"
offWDE03 == "offWDE03"
relWDE01 == "relWDE01"
relWDE02 == "relWDE02"
encWDE01 == "encWDE01"
proWDE01 == "proWDE01"
proWDE02 == "proWDE02"
seqWDE01 == "seqWDE01"
heuWDE01 == "heuWDE01"
heuWDE02 == "heuWDE02"

relativeBOF == "http://www.wikidata.org/entity/Q35436009"
relativeEOF == "http://www.wikidata.org/entity/Q1148480"

\* The provenance label that excuses a missing date.
trID == "transcription"

\* Go's nil error; an error is the non-empty sequence of its message parts.
nil == <<>>

(***************************************************************************)
(* The converter package (external to the sources at hand).                *)
(***************************************************************************)
UnknownEncoding == "UnknownEncoding"
HexEncoding == "HexEncoding"
GUIDEncoding == "GUIDEncoding"
PerlEncoding == "PerlEncoding"
ASCIIEncoding == "ASCIIEncoding"

LookupEncoding(label) ==
    CASE label = "hexadecimal" -> HexEncoding
      [] label = "PRONOM internal signature" -> PerlEncoding
      [] label = "globally unique identifier" -> GUIDEncoding
      [] label = "ASCII" -> ASCIIEncoding
      [] OTHER -> UnknownEncoding

HexDigits == {"0", "1", "2", "3", "4", "5", "6", "7", "8", "9",
              "a", "b", "c", "d", "e", "f", "A", "B", "C", "D", "E", "F"}

ToUpper(c) ==
    CASE c = "a" -> "A" [] c = "b" -> "B" [] c = "c" -> "C"
      [] c = "d" -> "D" [] c = "e" -> "E" [] c = "f" -> "F"
      [] OTHER -> c

\* The hexadecimal code of an ASCII character, for the characters in use.
AsciiToHex(c) ==
    CASE c = "a" -> <<"6", "1">> [] c = "b" -> <<"6", "2">>
      [] c = "c" -> <<"6", "3">> [] c = "d" -> <<"6", "4">>
      [] c = "z" -> <<"7", "A">> [] c = "A" -> <<"4", "1">>
      [] c = "B" -> <<"4", "2">> [] OTHER -> <<"3", "F">>

RECURSIVE AsciiStringToHex(_)
AsciiStringToHex(s) == IF s = <<>> THEN <<>> ELSE AsciiToHex(Head(s)) \o AsciiStringToHex(Tail(s))

\* converter.Parse: the normalized text and an error.  Hexadecimal (and
\* unlabelled) patterns are upper-cased and must hold hex digits only, ASCII
\* is encoded as hex, PRONOM and GUID patterns pass through.
Parse(value, encoding) ==
    CASE encoding \in {HexEncoding, UnknownEncoding} ->
            IF \A i \in 1..Len(value) : value[i] \in HexDigits
            THEN [value |-> [i \in 1..Len(value) |-> ToUpper(value[i])], err |-> nil]
            ELSE [value |-> <<>>, err |-> <<"cannot parse hexadecimal">>]
      [] encoding = ASCIIEncoding ->
            [value |-> AsciiStringToHex(value), err |-> nil]
      [] OTHER -> [value |-> value, err |-> nil]

(***************************************************************************)
(* strconv.Atoi on a sequence of characters.                               *)
(***************************************************************************)
Digits == {"0", "1", "2", "3", "4", "5", "6", "7", "8", "9"}

DigitValue(c) ==
    CASE c = "0" -> 0 [] c = "1" -> 1 [] c = "2" -> 2 [] c = "3" -> 3
      [] c = "4" -> 4 [] c = "5" -> 5 [] c = "6" -> 6 [] c = "7" -> 7
      [] c = "8" -> 8 [] c = "9" -> 9

RECURSIVE DigitsValue(_)
DigitsValue(s) ==
    IF s = <<>> THEN 0 ELSE 10 * DigitsValue(SubSeq(s, 1, Len(s) - 1)) + DigitValue(s[Len(s)])

Atoi(s) ==
    LET signed == s # <<>> /\ s[1] \in {"+", "-"}
        body == IF signed THEN Tail(s) ELSE s
    IN  IF body # <<>> /\ \A i \in 1..Len(body) : body[i] \in Digits
        THEN [n |-> IF signed /\ s[1] = "-" THEN 0 - DigitsValue(body) ELSE DigitsValue(body),
              err |-> nil]
        ELSE [n |-> 0, err |-> <<"invalid syntax">>]

(***************************************************************************)
(* The linting ledger: linter[uri][lintingResult], kept as the set of the  *)
(* lintingResult keys (each carries its URI).                              *)
(***************************************************************************)
\* The switch of addLinting: Go's cases do not fall through, so only the
\* last case reaches the assignment.
Critical(value) ==
    CASE value = offWDE02 -> FALSE
      [] value = relWDE02 -> FALSE
      [] value = heuWDE01 -> TRUE
      [] OTHER -> FALSE

\* addLinting as it would be if the critical flag followed the ledger: set
\* once the URI already has a diagnostic.
addLintingCriticalByLedger(l, uri, value) ==
    IF value = nle THEN l
    ELSE l \cup {[URI |-> uri, Value |-> value,
                  Critical |-> Critical(value) \/ (\E d \in l : d.URI = uri)]}

addLinting(l, uri, value) ==
    IF value = nle
    THEN l
    ELSE l \cup {[URI |-> uri, Value |-> value, Critical |-> Critical(value)]}

\* A variant of handleLinting that files the code under the URI without its
\* last segment.
handleLintingUnderNamespace(l, uri, lint) ==
    IF lint # nle THEN addLinting(l, SubSeq(uri, 1, Len(uri) - 1), lint) ELSE l

handleLinting(l, uri, lint) == IF lint # nle THEN addLinting(l, uri, lint) ELSE l

RECURSIVE handleLintings(_, _, _)
handleLintings(l, uri, lints) ==
    IF lints = <<>> THEN l
    ELSE handleLintings(handleLinting(l, uri, Head(lints)), uri, Tail(lints))

\* The counts as the third one would be if only heuWDE01 were counted.
countOnlyNoHeuristic(l) ==
    <<Cardinality({d.URI : d \in l}),
      Cardinality(l),
      Cardinality({d \in l : d.Value = heuWDE01})>>

\* The inner loop of countLintingErrors over the lintingResults of one URI:
\* individualCount and badHeuristicCount, counted up from the given values.
RECURSIVE countResults(_, _, _)
countResults(result, individualCount, badHeuristicCount) ==
    IF result = {} THEN <<individualCount, badHeuristicCount>>
    ELSE LET res == CHOOSE d \in result : TRUE
         IN  countResults(result \ {res}, individualCount + 1,
                          IF res.Value = heuWDE01 \/ res.Value = heuWDE02
                          THEN badHeuristicCount + 1 ELSE badHeuristicCount)

\* The outer loop over the URIs that are keys of the ledger.
RECURSIVE countURIs(_, _, _)
countURIs(l, uris, counts) ==
    IF uris = {} THEN counts
    ELSE LET uri == CHOOSE u \in uris : TRUE
         IN  countURIs(l, uris \ {uri},
                       <<counts[1] + 1>>
                       \o countResults({d \in l : d.URI = uri}, counts[2], counts[3]))

\* recordCount, individualCount, badHeuristicCount.
countLintingErrors(l) == countURIs(l, {d.URI : d \in l}, <<0, 0, 0>>)

(***************************************************************************)
(* Field validators.                                                       *)
(***************************************************************************)
validateAndReturnProvenance(value) ==
    IF value = "" THEN [value |-> value, lint |-> proWDE01]
    ELSE [value |-> value, lint |-> nle]

\* A variant of validateAndReturnDate that does not look at the provenance.
dateIgnoringProvenance(value, provenance) ==
    IF value = "" THEN [value |-> value, lint |-> proWDE02]
    ELSE [value |-> value, lint |-> nle]

validateAndReturnDate(value, provenance) ==
    IF value = "" /\ provenance # trID THEN [value |-> value, lint |-> proWDE02]
    ELSE [value |-> value, lint |-> nle]

validateAndReturnEncoding(value) ==
    LET encoding == LookupEncoding(value)
    IN  IF encoding = UnknownEncoding THEN [value |-> encoding, lint |-> encWDE01]
        ELSE [value |-> encoding, lint |-> nle]

\* A variant of validateAndReturnRelativity that assumes beginning of file
\* for every label it does not know.
relativityDefaultingToBOF(value) ==
    IF value = relativeEOF THEN [value |-> relativeEOF, lint |-> nle, err |-> nil]
    ELSE IF value = relativeBOF THEN [value |-> relativeBOF, lint |-> nle, err |-> nil]
    ELSE [value |-> relativeBOF, lint |-> relWDE01, err |-> nil]

validateAndReturnRelativity(value) ==
    IF value = "" THEN [value |-> relativeBOF, lint |-> relWDE01, err |-> nil]
    ELSE IF value = relativeBOF THEN [value |-> relativeBOF, lint |-> nle, err |-> nil]
    ELSE IF value = relativeEOF THEN [value |-> relativeEOF, lint |-> nle, err |-> nil]
    ELSE [value |-> value, lint |-> relWDE02,
          err |-> <<"Received an unknown relativity", value>>]

validateAndReturnOffset(value, nodeType) ==
    IF value = <<>> THEN [value |-> 0, lint |-> nle]
    ELSE IF nodeType = "bnode" THEN [value |-> 0, lint |-> offWDE03]
    ELSE LET r == Atoi(value)
         IN  IF r.err # nil THEN [value |-> r.n, lint |-> offWDE02]
             ELSE [value |-> r.n, lint |-> nle]

validateAndReturnSignature(value, encoding) ==
    LET r == Parse(value, encoding)
    IN  IF r.err # nil THEN [value |-> r.value, lint |-> heuWDE02, err |-> r.err]
        ELSE [value |-> r.value, lint |-> nle, err |-> nil]

(***************************************************************************)
(* Records.                                                                *)
(***************************************************************************)
getID(wikidataURI) == wikidataURI[Len(wikidataURI)]

\* The zero value of the Wikidata struct: what wikidataMapping[id] reads for
\* an identifier not yet stored.
ZeroWikidata ==
    [ID |-> "", Name |-> "", URI |-> <<>>, PRONOM |-> <<>>, Extension |-> <<>>,
     Mimetype |-> <<>>, Signatures |-> <<>>, disableSignatures |-> FALSE]

contains(items, item) == \E i \in 1..Len(items) : items[i] = item

\* newByteSequence: the sequence built from a row, and the ledger after the
\* six validators have reported under the row's own URI.
newByteSequence(l, wdRecord) ==
    LET uri == wdRecord.uri
        provenance == validateAndReturnProvenance(wdRecord.referenceLabel)
        date == validateAndReturnDate(wdRecord.date, provenance.value)
        relativity == validateAndReturnRelativity(wdRecord.relativityLabel)
        offset == validateAndReturnOffset(wdRecord.offset, wdRecord.offsetType)
        encoding == validateAndReturnEncoding(wdRecord.encodingLabel)
        signature == validateAndReturnSignature(wdRecord.sig, encoding.value)
    IN  [bs |-> [Signature |-> signature.value, Offset |-> offset.value,
                 Provenance |-> provenance.value, Date |-> date.value,
                 Encoding |-> encoding.value, Relativity |-> relativity.value],
         linter |-> handleLintings(l, uri, <<provenance.lint, date.lint, relativity.lint, offset.lint, encoding.lint, signature.lint>>)]

\* A variant of sequenceInSignatures that scans the last Signature only.
sequenceInLastSignature(signatures, signature) ==
    /\ Len(signatures) > 0
    /\ \E j \in 1..Len(signatures[Len(signatures)].ByteSequences) :
            signature = signatures[Len(signatures)].ByteSequences[j].Signature

\* A variant of sequenceInSignatures that never finds the sequence.
sequenceNeverInSignatures(signatures, signature) == FALSE

sequenceInSignatures(signatures, signature) ==
    \E i \in 1..Len(signatures) :
        \E j \in 1..Len(signatures[i].ByteSequences) :
            signature = signatures[i].ByteSequences[j].Signature

\* A variant of relativityAlreadyInSignatures that reports a relativity as
\* seen as soon as any sequence is stored.
relativityAlreadyInAnySequence(signatures, relativity) ==
    \E i \in 1..Len(signatures) : Len(signatures[i].ByteSequences) > 0

\* A variant of relativityAlreadyInSignatures that never finds the
\* relativity.
relativityNeverInSignatures(signatures, relativity) == FALSE

relativityAlreadyInSignatures(signatures, relativity) ==
    \E i \in 1..Len(signatures) :
        \E j \in 1..Len(signatures[i].ByteSequences) :
            relativity = signatures[i].ByteSequences[j].Relativity

checkEncodingCompatibility(signature, givenEncoding) ==
    ~ \E j \in 1..Len(signature.ByteSequences) :
        LET seq == signature.ByteSequences[j]
        IN  \/ (seq.Encoding = GUIDEncoding /\ givenEncoding # GUIDEncoding)
            \/ (seq.Encoding = PerlEncoding /\ givenEncoding # PerlEncoding)


\* A variant of groupSequence that checks the encoding of a further
\* beginning-of-file sequence against the last Signature before it starts a
\* new Signature, and that starts a new Signature for a further end-of-file
\* sequence too.
groupSequenceByEncoding(l, wdRecord, wd, encoding, relativity, signature) ==
    IF ~ sequenceInSignatures(wd.Signatures, signature)
    THEN IF Len(wd.Signatures) = 0
         THEN [wd |-> wd, lint |-> nle, linter |-> l, panic |-> TRUE]
         ELSE IF checkEncodingCompatibility(wd.Signatures[Len(wd.Signatures)], encoding)
              THEN IF relativityAlreadyInSignatures(wd.Signatures, relativity)
                   THEN [wd |-> [wd EXCEPT !.Signatures =
                                     Append(@, [ByteSequences |-> <<newByteSequence(l, wdRecord).bs>>])],
                         lint |-> nle, linter |-> newByteSequence(l, wdRecord).linter,
                         panic |-> FALSE]
                   ELSE [wd |-> [wd EXCEPT !.Signatures[Len(wd.Signatures)].ByteSequences =
                                     Append(@, newByteSequence(l, wdRecord).bs)],
                         lint |-> nle, linter |-> newByteSequence(l, wdRecord).linter,
                         panic |-> FALSE]
              ELSE [wd |-> wd, lint |-> heuWDE01, linter |-> l, panic |-> FALSE]
    ELSE [wd |-> wd, lint |-> nle, linter |-> l, panic |-> FALSE]

\* The grouping decision of updateSequences (its lines after the three
\* pre-processing validators): the record after the row, the linting code
\* returned, the ledger, and whether the row made the program panic (indexing
\* wd.Signatures[idx-1] with idx = 0 is a run-time fault).
groupSequence(l, wdRecord, wd, encoding, relativity, signature) ==
    IF ~ sequenceInSignatures(wd.Signatures, signature)
    THEN IF relativityAlreadyInSignatures(wd.Signatures, relativity)
         THEN IF relativity = relativeBOF
              THEN [wd |-> [wd EXCEPT !.Signatures =
                                Append(@, [ByteSequences |-> <<newByteSequence(l, wdRecord).bs>>])],
                    lint |-> nle, linter |-> newByteSequence(l, wdRecord).linter,
                    panic |-> FALSE]
              ELSE [wd |-> wd, lint |-> heuWDE01, linter |-> l, panic |-> FALSE]
         ELSE IF Len(wd.Signatures) = 0
              THEN [wd |-> wd, lint |-> nle, linter |-> l, panic |-> TRUE]
              ELSE IF checkEncodingCompatibility(wd.Signatures[Len(wd.Signatures)], encoding)
                   THEN [wd |-> [wd EXCEPT !.Signatures[Len(wd.Signatures)].ByteSequences =
                                     Append(@, newByteSequence(l, wdRecord).bs)],
                         lint |-> nle, linter |-> newByteSequence(l, wdRecord).linter,
                         panic |-> FALSE]
                   ELSE [wd |-> wd, lint |-> heuWDE01, linter |-> l, panic |-> FALSE]
    ELSE [wd |-> wd, lint |-> nle, linter |-> l, panic |-> FALSE]

\* updateSequences: the encoding, the relativity and the signature are
\* validated (and linted under the record's URI), then the row is grouped.
updateSequences(l, wdRecord, wd) ==
    LET encoding == validateAndReturnEncoding(wdRecord.encodingLabel)
        relativity == validateAndReturnRelativity(wdRecord.relativityLabel)
        signature == validateAndReturnSignature(wdRecord.sig, encoding.value)
    IN  groupSequence(
            handleLintings(l, wd.URI, <<encoding.lint, relativity.lint, signature.lint>>),
            wdRecord, wd, encoding.value, relativity.value, signature.value)

\* The number of distinct values in a list (the len of a Go map used as a set).
Distinct(list) == Cardinality({list[i] : i \in 1..Len(list)})

\* A variant of preValidateSignatures without the check of the encodings of
\* more than two sequences.
preValidateIgnoringEncodings(preProcessedSequences) ==
    LET n == Len(preProcessedSequences)
        relativity == SelectSeq([i \in 1..n |-> preProcessedSequences[i].relativity],
                                LAMBDA v : v # "")
        signature == [i \in 1..n |-> preProcessedSequences[i].signature]
        failed(v) ==
            \/ validateAndReturnRelativity(v.relativity).err # nil
            \/ validateAndReturnSignature(v.signature, LookupEncoding(v.encoding)).err # nil
    IN  IF \E i \in 1..n : failed(preProcessedSequences[i]) THEN FALSE
        ELSE IF n = 2 /\ Distinct(relativity) = 2 THEN TRUE
        ELSE IF n = 2 /\ Distinct(signature) = 2 THEN TRUE
        ELSE IF n > 2 /\ Distinct(relativity) # 1 /\ Distinct(relativity) # 0 THEN FALSE
        ELSE Len(relativity) = 0 \/ Len(relativity) = Len(signature)

\* A variant of preValidateSignatures without the check of the relativities
\* of more than two sequences.
preValidateIgnoringRelativities(preProcessedSequences) ==
    LET n == Len(preProcessedSequences)
        encoding == [i \in 1..n |-> preProcessedSequences[i].encoding]
        relativity == SelectSeq([i \in 1..n |-> preProcessedSequences[i].relativity],
                                LAMBDA v : v # "")
        signature == [i \in 1..n |-> preProcessedSequences[i].signature]
        failed(v) ==
            \/ validateAndReturnRelativity(v.relativity).err # nil
            \/ validateAndReturnSignature(v.signature, LookupEncoding(v.encoding)).err # nil
    IN  IF \E i \in 1..n : failed(preProcessedSequences[i]) THEN FALSE
        ELSE IF n = 2 /\ Distinct(relativity) = 2 THEN TRUE
        ELSE IF n = 2 /\ Distinct(signature) = 2 THEN TRUE
        ELSE IF n > 2 /\ Distinct(encoding) # 1 /\ Distinct(encoding) # 0 THEN FALSE
        ELSE Len(relativity) = 0 \/ Len(relativity) = Len(signature)

\* A variant of preValidateSignatures that accepts whatever passes the checks
\* before the last one.
preValidateWithoutParity(preProcessedSequences) ==
    LET n == Len(preProcessedSequences)
        encoding == [i \in 1..n |-> preProcessedSequences[i].encoding]
        relativity == SelectSeq([i \in 1..n |-> preProcessedSequences[i].relativity],
                                LAMBDA v : v # "")
        failed(v) ==
            \/ validateAndReturnRelativity(v.relativity).err # nil
            \/ validateAndReturnSignature(v.signature, LookupEncoding(v.encoding)).err # nil
    IN  IF \E i \in 1..n : failed(preProcessedSequences[i]) THEN FALSE
        ELSE IF n > 2 /\ Distinct(encoding) # 1 /\ Distinct(encoding) # 0 THEN FALSE
        ELSE IF n > 2 /\ Distinct(relativity) # 1 /\ Distinct(relativity) # 0 THEN FALSE
        ELSE TRUE

\* A variant of preValidateSignatures that does not validate the rows one by
\* one.
preValidateWithoutValidators(preProcessedSequences) ==
    LET n == Len(preProcessedSequences)
        encoding == [i \in 1..n |-> preProcessedSequences[i].encoding]
        relativity == SelectSeq([i \in 1..n |-> preProcessedSequences[i].relativity],
                                LAMBDA v : v # "")
        signature == [i \in 1..n |-> preProcessedSequences[i].signature]
    IN  IF n = 2 /\ Distinct(relativity) = 2 THEN TRUE
        ELSE IF n = 2 /\ Distinct(signature) = 2 THEN TRUE
        ELSE IF n > 2 /\ Distinct(encoding) # 1 /\ Distinct(encoding) # 0 THEN FALSE
        ELSE IF n > 2 /\ Distinct(relativity) # 1 /\ Distinct(relativity) # 0 THEN FALSE
        ELSE Len(relativity) = 0 \/ Len(relativity) = Len(signature)

preValidateSignatures(preProcessedSequences) ==
    LET n == Len(preProcessedSequences)
        encoding == [i \in 1..n |-> preProcessedSequences[i].encoding]
        relativity == SelectSeq([i \in 1..n |-> preProcessedSequences[i].relativity],
                                LAMBDA v : v # "")
        offset == [i \in 1..n |-> preProcessedSequences[i].offset]
        signature == [i \in 1..n |-> preProcessedSequences[i].signature]
        failed(v) ==
            \/ validateAndReturnRelativity(v.relativity).err # nil
            \/ validateAndReturnSignature(v.signature, LookupEncoding(v.encoding)).err # nil
        relativityMap == Distinct(relativity)
        signatureMap == Distinct(signature)
        encodingMap == Distinct(encoding)
    IN  IF \E i \in 1..n : failed(preProcessedSequences[i]) THEN FALSE
        ELSE IF n = 2 /\ relativityMap = 2 THEN TRUE
        ELSE IF n = 2 /\ signatureMap = 2 THEN TRUE
        ELSE IF n > 2 /\ encodingMap # 1 /\ encodingMap # 0 THEN FALSE
        ELSE IF n > 2 /\ relativityMap # 1 /\ relativityMap # 0 THEN FALSE
        ELSE IF Len(signature) = Len(encoding) /\ Len(offset) = Len(signature)
                /\ (Len(relativity) = 0 \/ Len(relativity) = Len(signature))
             THEN TRUE
        ELSE FALSE

preProcessed(wdRecord) ==
    [signature |-> wdRecord.sig, offset |-> wdRecord.offset,
     encoding |-> wdRecord.encodingLabel, relativity |-> wdRecord.relativityLabel]

\* A variant of preProcessedSequencesOf that collects the tuple of every row,
\* seen before or not.
RECURSIVE preProcessedWithRepeats(_, _, _)
preProcessedWithRepeats(wdRecords, id, n) ==
    IF n = 0 THEN <<>>
    ELSE IF getID(wdRecords[n].uri) = id /\ wdRecords[n].sig # <<>>
         THEN Append(preProcessedWithRepeats(wdRecords, id, n - 1), preProcessed(wdRecords[n]))
         ELSE preProcessedWithRepeats(wdRecords, id, n - 1)

\* The list addSignatures collects: the distinct tuples of the rows of the
\* identifier that carry a signature, in order of first occurrence.
RECURSIVE preProcessedSequencesOf(_, _, _)
preProcessedSequencesOf(wdRecords, id, n) ==
    IF n = 0 THEN <<>>
    ELSE LET before == preProcessedSequencesOf(wdRecords, id, n - 1)
             wdRecord == wdRecords[n]
         IN  IF getID(wdRecord.uri) = id /\ wdRecord.sig # <<>>
                /\ ~ contains(before, preProcessed(wdRecord))
             THEN Append(before, preProcessed(wdRecord))
             ELSE before

addSignatures(wdRecords, id) ==
    LET preProcessedSequences == preProcessedSequencesOf(wdRecords, id, Len(wdRecords))
    IN  IF Len(preProcessedSequences) > 0
        THEN preValidateSignatures(preProcessedSequences)
        ELSE FALSE

\* A variant of newRecord that disables the record without a word to the
\* ledger.
newRecordDisablingSilently(l, wdRecord, addSigs) ==
    LET wd == [ID |-> getID(wdRecord.uri), Name |-> wdRecord.formatLabel,
               URI |-> wdRecord.uri, PRONOM |-> <<wdRecord.puid>>,
               Extension |-> <<wdRecord.extension>>, Mimetype |-> <<wdRecord.mimetype>>,
               Signatures |-> <<>>, disableSignatures |-> FALSE]
        new == newByteSequence(l, wdRecord)
    IN  IF wdRecord.sig # <<>>
        THEN IF ~ addSigs
             THEN [wd |-> [wd EXCEPT !.disableSignatures = TRUE],
                   linter |-> l, panic |-> FALSE]
             ELSE [wd |-> [wd EXCEPT !.Signatures = <<[ByteSequences |-> <<new.bs>>]>>],
                   linter |-> new.linter, panic |-> FALSE]
        ELSE [wd |-> wd, linter |-> l, panic |-> FALSE]

newRecord(l, wdRecord, addSigs) ==
    LET wd == [ID |-> getID(wdRecord.uri), Name |-> wdRecord.formatLabel,
               URI |-> wdRecord.uri, PRONOM |-> <<wdRecord.puid>>,
               Extension |-> <<wdRecord.extension>>, Mimetype |-> <<wdRecord.mimetype>>,
               Signatures |-> <<>>, disableSignatures |-> FALSE]
        new == newByteSequence(l, wdRecord)
    IN  IF wdRecord.sig # <<>>
        THEN IF ~ addSigs
             THEN [wd |-> [wd EXCEPT !.disableSignatures = TRUE],
                   linter |-> addLinting(l, wd.URI, heuWDE01), panic |-> FALSE]
             ELSE [wd |-> [wd EXCEPT !.Signatures = <<[ByteSequences |-> <<new.bs>>]>>],
                   linter |-> new.linter, panic |-> FALSE]
        ELSE [wd |-> wd, linter |-> l, panic |-> FALSE]

\* A variant of appendIfMissing without the contains test.
appendAlways(items, item) == Append(items, item)

appendIfMissing(items, item) == IF contains(items, item) THEN items ELSE Append(items, item)

\* A variant of disableOnLintingErr that forgets wd.Signatures = nil.
disableKeepingSignatures(wd, upd) ==
    IF upd.panic
    THEN [wd |-> wd, linter |-> upd.linter, panic |-> TRUE]
    ELSE IF upd.lint # nle
         THEN [wd |-> [upd.wd EXCEPT !.disableSignatures = TRUE],
               linter |-> addLinting(upd.linter, wd.URI, upd.lint), panic |-> FALSE]
         ELSE [wd |-> upd.wd, linter |-> upd.linter, panic |-> FALSE]

\* A variant of disableOnLintingErr that leaves the ledger as it is.
disableWithoutLinting(wd, upd) ==
    IF upd.panic
    THEN [wd |-> wd, linter |-> upd.linter, panic |-> TRUE]
    ELSE IF upd.lint # nle
         THEN [wd |-> [upd.wd EXCEPT !.Signatures = <<>>, !.disableSignatures = TRUE],
               linter |-> upd.linter, panic |-> FALSE]
         ELSE [wd |-> upd.wd, linter |-> upd.linter, panic |-> FALSE]

\* The end of updateRecord: what it does with updateSequences' result.
disableOnLintingErr(wd, upd) ==
    IF upd.panic
    THEN [wd |-> wd, linter |-> upd.linter, panic |-> TRUE]
    ELSE IF upd.lint # nle
         THEN [wd |-> [upd.wd EXCEPT !.Signatures = <<>>, !.disableSignatures = TRUE],
               linter |-> addLinting(upd.linter, wd.URI, upd.lint), panic |-> FALSE]
         ELSE [wd |-> upd.wd, linter |-> upd.linter, panic |-> FALSE]

updateClassification(wdRecord, wd) ==
    [wd EXCEPT !.PRONOM = appendIfMissing(@, wdRecord.puid),
               !.Extension = appendIfMissing(@, wdRecord.extension),
               !.Mimetype = appendIfMissing(@, wdRecord.mimetype)]

updateSignatures(l, wdRecord, wd) ==
    IF wdRecord.sig # <<>> /\ ~ wd.disableSignatures
    THEN disableOnLintingErr(wd, updateSequences(l, wdRecord, wd))
    ELSE [wd |-> wd, linter |-> l, panic |-> FALSE]

updateRecord(l, wdRecord, wd) == updateSignatures(l, wdRecord, updateClassification(wdRecord, wd))

(***************************************************************************)
(* The summary (wikidata_summary.go), as far as analyseWikidataRecords     *)
(* fills it.                                                               *)
(***************************************************************************)
ZeroSummary ==
    [RecordsWithLintingErrors |-> 0, AllLintingMessageCount |-> 0,
     FormatsWithBadHeuristics |-> 0, RecordsWithSignatures |-> 0,
     MultipleSequences |-> 0]

\* How many Signatures of the list hold more than one ByteSequence.
RECURSIVE multipleSequencesIn(_)
multipleSequencesIn(signatures) ==
    IF signatures = <<>> THEN 0
    ELSE (IF Len(Head(signatures).ByteSequences) > 1 THEN 1 ELSE 0)
         + multipleSequencesIn(Tail(signatures))

RECURSIVE multipleSequencesOver(_, _)
multipleSequencesOver(mapping, ids) ==
    IF ids = {} THEN 0
    ELSE LET id == CHOOSE i \in ids : TRUE
         IN  multipleSequencesIn(mapping[id].Signatures)
             + multipleSequencesOver(mapping, ids \ {id})

analyseWikidataRecords(l, mapping) ==
    [RecordsWithLintingErrors |-> countLintingErrors(l)[1],
     AllLintingMessageCount |-> countLintingErrors(l)[2],
     FormatsWithBadHeuristics |-> countLintingErrors(l)[3],
     RecordsWithSignatures |->
         Cardinality({id \in DOMAIN mapping : Len(mapping[id].Signatures) > 0}),
     MultipleSequences |-> multipleSequencesOver(mapping, DOMAIN mapping)]

\* No function under examination has been called.
NoCall == [fn |-> "", args |-> <<>>]

(***************************************************************************)
(* The rows a run may receive.                                             *)
(***************************************************************************)
\* The row source binds ?uri to entity IRIs, so the final path segment (the
\* identifier) is never empty.
URI1 == <<"http:", "", "www.wikidata.org", "entity", "Q1">>
URI2 == <<"http:", "", "www.wikidata.org", "entity", "Q2">>

\* A second URI with the final path segment of URI1.
URI1b == <<"https:", "", "m.wikidata.org", "wiki", "Q1">>

Row(uri, sig, enc, rel, off, offType) ==
    [uri |-> uri, formatLabel |-> "format", puid |-> "fmt/1", extension |-> "ext",
     mimetype |-> "mime", sig |-> sig, referenceLabel |-> "PRONOM", date |-> "2020",
     encodingLabel |-> enc, offset |-> off, offsetType |-> offType,
     relativityLabel |-> rel]

NoSigRow(uri) == Row(uri, <<>>, "", "", <<>>, "literal")

\* The row that the variants below are taken from.
HexRow == Row(URI1, <<"a", "b">>, "hexadecimal", relativeBOF, <<>>, "literal")

Rows ==
    { Row(URI1, s, e, r, <<>>, "literal") :
        s \in {<<"a", "b">>, <<"c", "d">>},
        e \in {"hexadecimal", "PRONOM internal signature"},
        r \in {relativeBOF, relativeEOF} }
    \cup
    { NoSigRow(URI1),
      Row(URI1, <<"A", "B">>, "hexadecimal", relativeBOF, <<>>, "literal"),
      Row(URI1, <<"z", "z">>, "hexadecimal", relativeBOF, <<>>, "literal"),
      Row(URI1, <<"a", "b">>, "hexadecimal", "http://www.wikidata.org/entity/Q999", <<>>, "literal"),
      Row(URI1, <<"c", "d">>, "hexadecimal", relativeEOF, <<"t", "1">>, "bnode"),
      Row(URI1, <<"c", "d">>, "hexadecimal", relativeBOF, <<"x">>, "literal"),
      Row(URI1, <<"c", "d">>, "hexadecimal", relativeBOF, <<"1", "0">>, "literal"),
      Row(URI1, <<"e", "f">>, "globally unique identifier", relativeEOF, <<>>, "literal"),
      Row(URI1, <<"a", "b">>, "", "", <<>>, "literal"),
      [HexRow EXCEPT !.puid = "fmt/2", !.extension = "", !.mimetype = "mime2"],
      [HexRow EXCEPT !.referenceLabel = "", !.date = ""],
      [HexRow EXCEPT !.referenceLabel = trID, !.date = ""],
      [HexRow EXCEPT !.uri = URI1b, !.sig = <<"c", "d">>, !.encodingLabel = ""],
      NoSigRow(URI2),
      Row(URI2, <<"a", "b">>, "", "", <<>>, "literal") }

\* The identifiers of the rows.
IDs == {getID(r.uri) : r \in Rows}

(***************************************************************************)
(* main: the loop over the result rows.                                    *)
(***************************************************************************)
Init ==
    /\ pc = "runSPARQL"
    /\ results = <<>>
    /\ idx = 0
    /\ wikidataMapping = [id \in IDs |-> ZeroWikidata]
    /\ linter = {}
    /\ panicked = FALSE
    /\ summary = ZeroSummary
    /\ call = NoCall

\* runSPARQL decodes one more binding of the response.
runSPARQLBinding ==
    /\ pc = "runSPARQL"
    /\ Len(results) < MaxRows
    /\ \E wdRecord \in Rows : results' = Append(results, wdRecord)
    /\ UNCHANGED <<pc, idx, wikidataMapping, linter, panicked, summary, call>>

\* runSPARQL returns res.Results.Bindings and the loop over the rows begins.
runSPARQLReturn ==
    /\ pc = "runSPARQL"
    /\ pc' = "main"
    /\ UNCHANGED <<results, idx, wikidataMapping, linter, panicked, summary, call>>

\* The row is the first of its identifier.
MainNewRecord ==
    /\ pc = "main"
    /\ ~ panicked
    /\ idx < Len(results)
    /\ LET wdRecord == results[idx + 1]
           id == getID(wdRecord.uri)
       IN  /\ wikidataMapping[id].ID = ""
           /\ \E new \in {newRecord(linter, wdRecord, addSignatures(results, id))} :
                  /\ wikidataMapping' = [wikidataMapping EXCEPT ![id] = new.wd]
                  /\ linter' = new.linter
    /\ idx' = idx + 1
    /\ UNCHANGED <<pc, results, panicked, summary, call>>

\* The row belongs to a stored identifier, and updateRecord returns.
MainUpdateRecord ==
    /\ pc = "main"
    /\ ~ panicked
    /\ idx < Len(results)
    /\ LET wdRecord == results[idx + 1]
           id == getID(wdRecord.uri)
       IN  /\ wikidataMapping[id].ID # ""
           /\ \E upd \in {updateRecord(linter, wdRecord, wikidataMapping[id])} :
                  /\ ~ upd.panic
                  /\ wikidataMapping' = [wikidataMapping EXCEPT ![id] = upd.wd]
                  /\ linter' = upd.linter
    /\ idx' = idx + 1
    /\ UNCHANGED <<pc, results, panicked, summary, call>>

\* The row belongs to a stored identifier, and updateSequences indexes an
\* empty Signatures slice: the run aborts with the ledger as it stood.
MainPanic ==
    /\ pc = "main"
    /\ ~ panicked
    /\ idx < Len(results)
    /\ LET wdRecord == results[idx + 1]
           id == getID(wdRecord.uri)
       IN  /\ wikidataMapping[id].ID # ""
           /\ \E upd \in {updateRecord(linter, wdRecord, wikidataMapping[id])} :
                  /\ upd.panic
                  /\ linter' = upd.linter
    /\ panicked' = TRUE
    /\ UNCHANGED <<pc, results, idx, wikidataMapping, summary, call>>

\* The loop is over: main fills the summary from the ledger and the mapping.
MainAnalyse ==
    /\ pc = "main"
    /\ ~ panicked
    /\ idx = Len(results)
    /\ summary' = analyseWikidataRecords(linter, wikidataMapping)
    /\ pc' = "done"
    /\ UNCHANGED <<results, idx, wikidataMapping, linter, panicked, call>>

Next ==
    \/ runSPARQLBinding
    \/ runSPARQLReturn
    \/ MainNewRecord
    \/ MainUpdateRecord
    \/ MainPanic
    \/ MainAnalyse

Spec == Init /\ [][Next]_vars

(***************************************************************************)
(* The ledger on its own: any sequence of addLinting and handleLinting     *)
(* calls, closed by one countLintingErrors.                                *)
(***************************************************************************)
\* The most lintingResults a ledger holds.
MaxDiagnostics == 3

Lintings ==
    {nle, offWDE01, offWDE02, offWDE03, relWDE01, relWDE02, encWDE01,
     proWDE01, proWDE02, seqWDE01, heuWDE01, heuWDE02}

LedgerURIs == {URI1, URI2}

InitLedger ==
    /\ pc = "ledger"
    /\ results = <<>>
    /\ idx = 0
    /\ wikidataMapping = [id \in IDs |-> ZeroWikidata]
    /\ linter = {}
    /\ panicked = FALSE
    /\ summary = ZeroSummary
    /\ call = NoCall

LedgerAddLinting ==
    /\ pc = "ledger"
    /\ \E uri \in LedgerURIs, value \in Lintings :
           /\ Cardinality(addLinting(linter, uri, value)) <= MaxDiagnostics
           /\ linter' = addLinting(linter, uri, value)
           /\ call' = [fn |-> "addLinting", args |-> <<uri, value>>]
    /\ UNCHANGED <<pc, results, idx, wikidataMapping, panicked, summary>>

LedgerHandleLinting ==
    /\ pc = "ledger"
    /\ \E uri \in LedgerURIs, lint \in Lintings :
           /\ Cardinality(handleLinting(linter, uri, lint)) <= MaxDiagnostics
           /\ linter' = handleLinting(linter, uri, lint)
           /\ call' = [fn |-> "handleLinting", args |-> <<uri, lint>>]
    /\ UNCHANGED <<pc, results, idx, wikidataMapping, panicked, summary>>

LedgerCountLintingErrors ==
    /\ pc = "ledger"
    /\ call' = [fn |-> "countLintingErrors", args |-> <<>>,
                ret |-> countLintingErrors(linter)]
    /\ pc' = "counted"
    /\ UNCHANGED <<results, idx, wikidataMapping, linter, panicked, summary>>

NextLedger == LedgerAddLinting \/ LedgerHandleLinting \/ LedgerCountLintingErrors

SpecLedger == InitLedger /\ [][NextLedger]_vars

(***************************************************************************)
(* The validators on their own: each call of a validator, or of            *)
(* newByteSequence on a fresh ledger, with its arguments and what it       *)
(* returns.                                                                *)
(***************************************************************************)
\* The longest offset and signature text handed to a validator.
MaxTextLen == 2

Texts(chars) == UNION {[1..n -> chars] : n \in 0..MaxTextLen}

ProvenanceLabels == {"", trID, "PRONOM"}
DateValues == {"", "2020"}
EncodingLabels ==
    {"", "hexadecimal", "PRONOM internal signature", "globally unique identifier",
     "ASCII", "base64"}
RelativityLabels ==
    {"", relativeBOF, relativeEOF, "http://www.wikidata.org/entity/Q999",
     "beginning of file"}
NodeTypes == {"literal", "bnode"}
Encodings == {UnknownEncoding, HexEncoding, GUIDEncoding, PerlEncoding, ASCIIEncoding}

InitValidators ==
    /\ pc = "validators"
    /\ results = <<>>
    /\ idx = 0
    /\ wikidataMapping = [id \in IDs |-> ZeroWikidata]
    /\ linter = {}
    /\ panicked = FALSE
    /\ summary = ZeroSummary
    /\ call = NoCall

CallProvenance ==
    /\ pc = "validators"
    /\ \E value \in ProvenanceLabels :
           call' = [fn |-> "validateAndReturnProvenance", args |-> <<value>>,
                    ret |-> validateAndReturnProvenance(value)]
    /\ UNCHANGED <<pc, results, idx, wikidataMapping, linter, panicked, summary>>

CallDate ==
    /\ pc = "validators"
    /\ \E value \in DateValues, provenance \in ProvenanceLabels :
           call' = [fn |-> "validateAndReturnDate", args |-> <<value, provenance>>,
                    ret |-> validateAndReturnDate(value, provenance)]
    /\ UNCHANGED <<pc, results, idx, wikidataMapping, linter, panicked, summary>>

CallEncoding ==
    /\ pc = "validators"
    /\ \E value \in EncodingLabels :
           call' = [fn |-> "validateAndReturnEncoding", args |-> <<value>>,
                    ret |-> validateAndReturnEncoding(value)]
    /\ UNCHANGED <<pc, results, idx, wikidataMapping, linter, panicked, summary>>

CallRelativity ==
    /\ pc = "validators"
    /\ \E value \in RelativityLabels :
           call' = [fn |-> "validateAndReturnRelativity", args |-> <<value>>,
                    ret |-> validateAndReturnRelativity(value)]
    /\ UNCHANGED <<pc, results, idx, wikidataMapping, linter, panicked, summary>>

CallOffset ==
    /\ pc = "validators"
    /\ \E value \in Texts({"0", "1", "-", "x"}), nodeType \in NodeTypes :
           call' = [fn |-> "validateAndReturnOffset", args |-> <<value, nodeType>>,
                    ret |-> validateAndReturnOffset(value, nodeType)]
    /\ UNCHANGED <<pc, results, idx, wikidataMapping, linter, panicked, summary>>

CallSignature ==
    /\ pc = "validators"
    /\ \E value \in Texts({"a", "B", "z"}), encoding \in Encodings :
           call' = [fn |-> "validateAndReturnSignature", args |-> <<value, encoding>>,
                    ret |-> validateAndReturnSignature(value, encoding)]
    /\ UNCHANGED <<pc, results, idx, wikidataMapping, linter, panicked, summary>>

\* newByteSequence on a row, the ledger empty before the call.
CallNewByteSequence ==
    /\ pc = "validators"
    /\ \E wdRecord \in Rows :
           call' = [fn |-> "newByteSequence", args |-> <<wdRecord>>,
                    ret |-> newByteSequence({}, wdRecord)]
    /\ UNCHANGED <<pc, results, idx, wikidataMapping, linter, panicked, summary>>

NextValidators ==
    \/ CallProvenance
    \/ CallDate
    \/ CallEncoding
    \/ CallRelativity
    \/ CallOffset
    \/ CallSignature
    \/ CallNewByteSequence

SpecValidators == InitValidators /\ [][NextValidators]_vars

(***************************************************************************)
(* The pre-flight check on its own: preValidateSignatures called once on a *)
(* list of preProcessedSequences.                                          *)
(***************************************************************************)
\* The longest list handed to preValidateSignatures.
MaxTuples == 3

PreflightTuples ==
    [signature : {<<"a", "b">>, <<"c", "d">>, <<"z", "z">>},
     offset : {<<>>},
     encoding : {"hexadecimal", "PRONOM internal signature"},
     relativity : {"", relativeBOF, relativeEOF, "http://www.wikidata.org/entity/Q999"}]

InitPreflight ==
    /\ pc = "preflight"
    /\ results = <<>>
    /\ idx = 0
    /\ wikidataMapping = [id \in IDs |-> ZeroWikidata]
    /\ linter = {}
    /\ panicked = FALSE
    /\ summary = ZeroSummary
    /\ call = NoCall

CallPreValidateSignatures ==
    /\ pc = "preflight"
    /\ \E n \in 1..MaxTuples :
           \E preProcessedSequences \in [1..n -> PreflightTuples] :
               \* addSignatures hands over each tuple once
               /\ \A i, j \in 1..n :
                      preProcessedSequences[i] = preProcessedSequences[j] => i = j
               /\ call' = [fn |-> "preValidateSignatures",
                           args |-> <<preProcessedSequences>>,
                           ret |-> preValidateSignatures(preProcessedSequences)]
    /\ pc' = "returned"
    /\ UNCHANGED <<results, idx, wikidataMapping, linter, panicked, summary>>

NextPreflight == CallPreValidateSignatures

SpecPreflight == InitPreflight /\ [][NextPreflight]_vars

(***************************************************************************)
(* Vocabulary of the properties.                                           *)
(***************************************************************************)
\* The loop of main has consumed every row.
Finished == pc = "main" /\ idx = Len(results)

RECURSIVE AllByteSequences(_)
AllByteSequences(signatures) ==
    IF signatures = <<>> THEN <<>>
    ELSE Head(signatures).ByteSequences \o AllByteSequences(Tail(signatures))

\* The rows of an identifier, and those of them that carry a signature.
RowsOf(id) == SelectSeq(results, LAMBDA r : getID(r.uri) = id)
SigRowsOf(id) == SelectSeq(results, LAMBDA r : getID(r.uri) = id /\ r.sig # <<>>)

\* The pre-flight check ran on the rows of the identifier and rejected them.
PreflightRejects(id) ==
    /\ Len(preProcessedSequencesOf(results, id, Len(results))) > 0
    /\ ~ preValidateSignatures(preProcessedSequencesOf(results, id, Len(results)))

HasLinting(uri, value) == \E d \in linter : d.URI = uri /\ d.Value = value

\* The row has one of the fatal per-row errors.
FatalRow(r) ==
    \/ validateAndReturnOffset(r.offset, r.offsetType).lint \in {offWDE02, offWDE03}
    \/ validateAndReturnRelativity(r.relativityLabel).lint = relWDE02
    \/ validateAndReturnSignature(r.sig, LookupEncoding(r.encodingLabel)).lint = heuWDE02

NormalizedSig(r) == validateAndReturnSignature(r.sig, LookupEncoding(r.encodingLabel))

(***************************************************************************)
(* C1.  A record whose disableSignatures flag is set has no Signatures,    *)
(* and every later step leaves the flag set and the list empty.            *)
(***************************************************************************)
DisabledIsEmpty ==
    \A id \in IDs :
        wikidataMapping[id].disableSignatures => wikidataMapping[id].Signatures = <<>>

DisabledStays ==
    \A id \in IDs :
        wikidataMapping[id].disableSignatures =>
            /\ wikidataMapping'[id].disableSignatures
            /\ wikidataMapping'[id].Signatures = <<>>

\* C1: disabled implies an empty Signature list in every reachable state, and
\* Disabled is terminal: no step re-enables a record or gives it a Signature.
C1_DisabledTerminal == []DisabledIsEmpty /\ [][DisabledStays]_vars

\* C1 witness: a record seeded by its first row, disabled by its second row
\* (a second end-of-file pattern), with a third signature row processed after.
C1_Witness ==
    /\ Finished /\ idx = 3
    /\ \A k \in 1..3 : results[k].uri = URI1 /\ results[k].sig # <<>>
    /\ addSignatures(results, getID(URI1))
    /\ results[1].relativityLabel = relativeEOF
    /\ results[2].relativityLabel = relativeEOF
    /\ results[3] = results[1]
    /\ wikidataMapping[getID(URI1)].disableSignatures
    /\ wikidataMapping[getID(URI1)].Signatures = <<>>

(***************************************************************************)
(* C2.  Within a record that is not disabled no normalized signature text  *)
(* is stored twice.                                                        *)
(***************************************************************************)
\* C2: for every non-disabled record the number of distinct normalized texts
\* over all its Signatures equals its number of ByteSequences.
C2_NoDuplicateSequence ==
    \A id \in IDs :
        ~ wikidataMapping[id].disableSignatures =>
            LET all == AllByteSequences(wikidataMapping[id].Signatures)
            IN  Cardinality({all[i].Signature : i \in 1..Len(all)}) = Len(all)

\* C2 witness: two rows whose raw patterns differ and normalize to the same
\* text were both processed, and the record holds one ByteSequence.
C2_Witness ==
    /\ Finished /\ idx = 2
    /\ results[1].uri = URI1 /\ results[2].uri = URI1
    /\ results[1].sig # <<>> /\ results[2].sig # <<>>
    /\ results[1].sig # results[2].sig
    /\ NormalizedSig(results[1]).value = NormalizedSig(results[2]).value
    /\ ~ wikidataMapping[getID(URI1)].disableSignatures
    /\ Len(AllByteSequences(wikidataMapping[getID(URI1)].Signatures)) = 1

(***************************************************************************)
(* C3.  Encoding compatibility inside one Signature.                       *)
(***************************************************************************)
EncodingIncompatible(a, b) ==
    \/ (a = GUIDEncoding) # (b = GUIDEncoding)
    \/ (a = PerlEncoding) # (b = PerlEncoding)

\* C3: any two ByteSequences of one Signature are encoding-compatible:
\* neither exactly one of them is GUID-encoded nor exactly one PRONOM-encoded,
\* whichever arrived first.
C3_EncodingCompatible ==
    \A id \in IDs :
        \A i \in 1..Len(wikidataMapping[id].Signatures) :
            LET seqs == wikidataMapping[id].Signatures[i].ByteSequences
            IN  \A j, k \in 1..Len(seqs) :
                    ~ EncodingIncompatible(seqs[j].Encoding, seqs[k].Encoding)

(***************************************************************************)
(* C4.  One end-of-file row with a blank-node offset.                      *)
(***************************************************************************)
\* C4: a record whose only signature row has end-of-file relativity and a
\* blank-node offset is rejected by the pre-flight check, ends disabled with no
\* Signature, and has a critical diagnostic in the ledger.
C4_BlankNodeRejected ==
    \A id \in IDs :
        ( /\ Finished
          /\ Len(SigRowsOf(id)) = 1
          /\ SigRowsOf(id)[1].relativityLabel = relativeEOF
          /\ SigRowsOf(id)[1].offset # <<>>
          /\ SigRowsOf(id)[1].offsetType = "bnode" )
        =>
        ( /\ ~ addSignatures(results, id)
          /\ wikidataMapping[id].disableSignatures
          /\ wikidataMapping[id].Signatures = <<>>
          /\ \E d \in linter : d.URI = SigRowsOf(id)[1].uri /\ d.Critical )

(***************************************************************************)
(* C5.  Rows with a fatal per-row error add no ByteSequence.               *)
(***************************************************************************)
\* C5: every stored ByteSequence was built from a processed row of its record
\* that has no fatal per-row error (no row with an unparsable or blank-node
\* offset, an unknown relativity or a failed normalization contributes one).
C5_FatalRowExcluded ==
    \A id \in IDs :
        LET all == AllByteSequences(wikidataMapping[id].Signatures)
        IN  \A i \in 1..Len(all) :
                \E k \in 1..idx :
                    /\ getID(results[k].uri) = id
                    /\ results[k].sig # <<>>
                    /\ ~ FatalRow(results[k])
                    /\ newByteSequence({}, results[k]).bs = all[i]

(***************************************************************************)
(* C6.  No row aborts the run.                                             *)
(***************************************************************************)
\* C6: the assembler never raises a fault: in no reachable state has the loop
\* over the rows panicked.
C6_NoFault == ~ panicked

(***************************************************************************)
(* C7.  A rejected record is disabled when it is created.                  *)
(***************************************************************************)
\* C7: every stored record whose pre-flight check rejects is disabled, has no
\* Signature and has a bad-heuristic diagnostic, whether or not its first row
\* carries a signature.
C7_RejectedIsDisabled ==
    \A id \in IDs :
        (wikidataMapping[id].ID # "" /\ PreflightRejects(id)) =>
            /\ wikidataMapping[id].disableSignatures
            /\ wikidataMapping[id].Signatures = <<>>
            /\ HasLinting(wikidataMapping[id].URI, heuWDE01)

(***************************************************************************)
(* C8.  The fatal flag is a fixed function of the code.                    *)
(***************************************************************************)
FatalCodes == {offWDE02, offWDE03, relWDE02, heuWDE02, heuWDE01}

\* C8: every diagnostic of the ledger is fatal exactly when its code is one of
\* cannot-parse-offset, blank-node-offset, unknown-relativity,
\* cannot-process-sequence and bad-heuristic.
C8_FatalByCode == \A d \in linter : d.Critical = (d.Value \in FatalCodes)

(***************************************************************************)
(* C9.  Scenario A: a beginning-of-file and an end-of-file row.            *)
(***************************************************************************)
\* The record starts with a signature row and has exactly two signature rows,
\* one per relativity, with one encoding label and patterns that normalize to
\* distinct texts.
ScenarioA(id) ==
    /\ RowsOf(id) # <<>> /\ RowsOf(id)[1].sig # <<>>
    /\ Len(SigRowsOf(id)) = 2
    /\ {SigRowsOf(id)[1].relativityLabel, SigRowsOf(id)[2].relativityLabel}
          = {relativeBOF, relativeEOF}
    /\ SigRowsOf(id)[1].encodingLabel = SigRowsOf(id)[2].encodingLabel
    /\ NormalizedSig(SigRowsOf(id)[1]).err = nil
    /\ NormalizedSig(SigRowsOf(id)[2]).err = nil
    /\ NormalizedSig(SigRowsOf(id)[1]).value # NormalizedSig(SigRowsOf(id)[2]).value

\* C9: in scenario A, in either arrival order, the pre-flight check accepts
\* and the finished record is not disabled and holds one Signature of two
\* ByteSequences.
C9_ScenarioA ==
    \A id \in IDs :
        (Finished /\ ScenarioA(id)) =>
            /\ addSignatures(results, id)
            /\ ~ wikidataMapping[id].disableSignatures
            /\ Len(wikidataMapping[id].Signatures) = 1
            /\ Len(wikidataMapping[id].Signatures[1].ByteSequences) = 2

\* C9 witness: scenario A ran to the end with the end-of-file row first.
C9_Witness ==
    /\ Finished
    /\ ScenarioA(getID(URI1))
    /\ SigRowsOf(getID(URI1))[1].relativityLabel = relativeEOF
    /\ Len(wikidataMapping[getID(URI1)].Signatures) = 1

(***************************************************************************)
(* C10.  Scenario B: two hexadecimal rows and a PRONOM row.                *)
(***************************************************************************)
\* The record starts with a signature row and has exactly three signature
\* rows, distinct in (signature, offset, encoding, relativity), all labelled
\* beginning-of-file, two of them hexadecimal and one PRONOM.
ScenarioB(id) ==
    /\ RowsOf(id) # <<>> /\ RowsOf(id)[1].sig # <<>>
    /\ Len(SigRowsOf(id)) = 3
    /\ Len(preProcessedSequencesOf(results, id, Len(results))) = 3
    /\ \A k \in 1..3 : SigRowsOf(id)[k].relativityLabel = relativeBOF
    /\ Cardinality({k \in 1..3 :
            LookupEncoding(SigRowsOf(id)[k].encodingLabel) = HexEncoding}) = 2
    /\ Cardinality({k \in 1..3 :
            LookupEncoding(SigRowsOf(id)[k].encodingLabel) = PerlEncoding}) = 1

OnePerPair ==
    /\ \A d1, d2 \in linter : d1.URI = d2.URI /\ d1.Value = d2.Value => d1 = d2
    /\ \A d \in linter : d.Value # nle

\* The call just made, made once more, leaves the ledger as it is.
SecondCallIdle ==
    /\ call.fn = "addLinting" => addLinting(linter, call.args[1], call.args[2]) = linter
    /\ call.fn = "handleLinting" => handleLinting(linter, call.args[1], call.args[2]) = linter

\* A call with the sentinel changes nothing in the ledger.
SentinelIdle ==
    (call'.fn \in {"addLinting", "handleLinting"} /\ call'.args[2] = nle) => linter' = linter

\* C11: after any sequence of record calls the ledger holds at most one
\* diagnostic per (URI, code) pair, a call with the no-error sentinel leaves
\* the ledger unchanged, and repeating the call just made leaves it unchanged.
C11_RecordIdempotent == [](OnePerPair /\ SecondCallIdle) /\ [][SentinelIdle]_vars

\* A full ledger in which a URI holds two diagnostics, the one of the call just
\* made among them.
C11_Witness ==
    /\ call.fn = "addLinting"
    /\ call.args[2] # nle
    /\ Cardinality({d \in linter : d.URI = call.args[1]}) = 2
    /\ Cardinality(linter) = MaxDiagnostics

(***************************************************************************)
(* C12.  The three counts of countLintingErrors.                           *)
(***************************************************************************)
Counted == call.fn = "countLintingErrors"

URIsWithLinting == {uri \in LedgerURIs : \E d \in linter : d.URI = uri}

StoredPairs == {<<d.URI, d.Value>> : d \in linter}

\* C12 as stated: the third count is the number of stored diagnostics whose
\* code is "bad heuristic" (heuWDE01).
C12_CountsAsStated ==
    Counted =>
        /\ call.ret[1] = Cardinality(URIsWithLinting)
        /\ call.ret[2] = Cardinality(StoredPairs)
        /\ call.ret[3] = Cardinality({p \in StoredPairs : p[2] = heuWDE01})

\* C12, amended: the counts are the number of URIs with at least one
\* diagnostic, the number of stored (URI, code) diagnostics, and the number of
\* stored diagnostics whose code is "bad heuristic" or "cannot process
\* sequence" (heuWDE01 or heuWDE02).
C12_CountsBothHeuristicCodes ==
    Counted =>
        /\ call.ret[1] = Cardinality(URIsWithLinting)
        /\ call.ret[2] = Cardinality(StoredPairs)
        /\ call.ret[3] = Cardinality({p \in StoredPairs : p[2] \in {heuWDE01, heuWDE02}})

\* Counted: a ledger of two URIs that holds both heuristic codes.
C12_Witness ==
    /\ Counted
    /\ Cardinality(URIsWithLinting) = 2
    /\ \E d \in linter : d.Value = heuWDE01
    /\ \E d \in linter : d.Value = heuWDE02
    /\ call.ret[3] = 2

(***************************************************************************)
(* C14.  The classification lists of a record.                             *)
(***************************************************************************)
\* The rows of the identifier among the rows that main has consumed.
RECURSIVE ProcessedRowsOf(_, _)
ProcessedRowsOf(id, n) ==
    IF n = 0 THEN <<>>
    ELSE ProcessedRowsOf(id, n - 1)
         \o (IF getID(results[n].uri) = id THEN <<results[n]>> ELSE <<>>)

\* The values of a list, each kept where it first appears.
RECURSIVE FirstAppearances(_)
FirstAppearances(values) ==
    IF values = <<>> THEN <<>>
    ELSE LET front == FirstAppearances(SubSeq(values, 1, Len(values) - 1))
             last == values[Len(values)]
         IN  IF \E i \in DOMAIN front : front[i] = last THEN front ELSE Append(front, last)

NoDuplicates(list) == \A i, j \in DOMAIN list : list[i] = list[j] => i = j

BlankOnlyFirst(list) == \A i \in DOMAIN list : list[i] = "" => i = 1

\* The three lists hold, without duplicates, the values of the consumed rows
\* of the record in order of first appearance.
ClassificationInOrder(id) ==
    LET rows == ProcessedRowsOf(id, idx)
        wd == wikidataMapping[id]
    IN  /\ NoDuplicates(wd.PRONOM) /\ NoDuplicates(wd.Extension) /\ NoDuplicates(wd.Mimetype)
        /\ wd.PRONOM = FirstAppearances([i \in DOMAIN rows |-> rows[i].puid])
        /\ wd.Extension = FirstAppearances([i \in DOMAIN rows |-> rows[i].extension])
        /\ wd.Mimetype = FirstAppearances([i \in DOMAIN rows |-> rows[i].mimetype])

\* C14 as stated: each classification list of a record has no duplicate
\* value, has no blank placeholder except possibly as its first element, and
\* lists its values in order of first appearance in the row stream.
C14_ClassificationAsStated ==
    \A id \in IDs :
        /\ ClassificationInOrder(id)
        /\ BlankOnlyFirst(wikidataMapping[id].PRONOM)
        /\ BlankOnlyFirst(wikidataMapping[id].Extension)
        /\ BlankOnlyFirst(wikidataMapping[id].Mimetype)

\* C14, amended: each classification list of a record has no duplicate value
\* and lists the values of the record's rows, a blank one included, in order
\* of first appearance; a blank therefore occurs at most once, at the place
\* of the first row that had it.
C14_ClassificationInOrder == \A id \in IDs : ClassificationInOrder(id)

\* Three rows of a record consumed, the second the first one with a blank
\* extension and a new registry code, the third bringing no new value.
C14_Witness ==
    \E id \in IDs :
        /\ Len(ProcessedRowsOf(id, idx)) = 3
        /\ wikidataMapping[id].Extension = <<"ext", "">>
        /\ wikidataMapping[id].PRONOM = <<"fmt/1", "fmt/2">>

(***************************************************************************)
(* C15.  What the relativity validator returns.                            *)
(***************************************************************************)
\* C15: validateAndReturnRelativity returns, for an empty label, the
\* beginning-of-file sentinel with "missing relativity" and no error; for a
\* label that is one of the two sentinels, that sentinel with the no-error
\* code and no error; for any other label, "unknown relativity" with an error
\* that names the label.
C15_RelativityCases ==
    call.fn = "validateAndReturnRelativity" =>
        LET label == call.args[1]
        IN  /\ label = "" =>
                   call.ret.value = relativeBOF /\ call.ret.lint = relWDE01 /\ call.ret.err = nil
            /\ label \in {relativeBOF, relativeEOF} =>
                   call.ret.value = label /\ call.ret.lint = nle /\ call.ret.err = nil
            /\ label \notin {"", relativeBOF, relativeEOF} =>
                   /\ call.ret.lint = relWDE02
                   /\ call.ret.err # nil
                   /\ \E i \in DOMAIN call.ret.err : call.ret.err[i] = label

\* The validator was called with a label that is neither empty nor a sentinel.
C15_Witness ==
    /\ call.fn = "validateAndReturnRelativity"
    /\ call.args[1] = "beginning of file"
    /\ call.ret.lint = relWDE02

(***************************************************************************)
(* C16.  The missing date and the transcription marker.                    *)
(***************************************************************************)
\* C16: for an empty date the date validator returns "missing date" unless
\* the provenance is the transcription marker, and newByteSequence records
\* "missing date" for a row with an empty date exactly when the row's
\* provenance is not the marker.
C16_MissingDate ==
    /\ (call.fn = "validateAndReturnDate" /\ call.args[1] = "") =>
           /\ call.args[2] = trID => call.ret.lint # proWDE02
           /\ call.args[2] # trID => call.ret.lint = proWDE02
    /\ (call.fn = "newByteSequence" /\ call.args[1].date = "") =>
           /\ call.args[1].referenceLabel = trID =>
                  ~ \E d \in call.ret.linter : d.Value = proWDE02
           /\ call.args[1].referenceLabel # trID =>
                  \E d \in call.ret.linter :
                      d.Value = proWDE02 /\ d.URI = call.args[1].uri

\* newByteSequence built the sequence of a transcribed row without a date.
C16_Witness ==
    /\ call.fn = "newByteSequence"
    /\ call.args[1].date = ""
    /\ call.args[1].referenceLabel = trID
    /\ call.ret.bs.Date = ""
    /\ call.ret.linter = {}

(***************************************************************************)
(* Vocabulary of the grouping steps: the row that main is about to         *)
(* consume, against the record it belongs to.                              *)
(***************************************************************************)
NextRow == results[idx + 1]

\* The next row carries a signature and belongs to a stored record that is
\* not disabled.
LaterRow(id) ==
    /\ pc = "main" /\ ~ panicked /\ idx < Len(results)
    /\ getID(NextRow.uri) = id
    /\ wikidataMapping[id].ID # ""
    /\ ~ wikidataMapping[id].disableSignatures
    /\ NextRow.sig # <<>>

\* The normalized text, the encoding and the relativity of a row.
RowText(r) == NormalizedSig(r).value
RowEncoding(r) == LookupEncoding(r.encodingLabel)
RowRelativity(r) == IF r.relativityLabel = "" THEN relativeBOF ELSE r.relativityLabel

StoredSequences(id) ==
    {AllByteSequences(wikidataMapping[id].Signatures)[i] :
        i \in DOMAIN AllByteSequences(wikidataMapping[id].Signatures)}

TextStored(id) == \E bs \in StoredSequences(id) : bs.Signature = RowText(NextRow)

RelativityStored(id) == \E bs \in StoredSequences(id) : bs.Relativity = RowRelativity(NextRow)

(***************************************************************************)
(* C17.  A row whose normalized text is already stored.                    *)
(***************************************************************************)
\* C17 as stated: such a row leaves the record's Signatures and flag as they
\* are and adds no diagnostic to the ledger.
DuplicateSilent ==
    \A id \in IDs :
        (LaterRow(id) /\ TextStored(id)) =>
            /\ wikidataMapping'[id].Signatures = wikidataMapping[id].Signatures
            /\ wikidataMapping'[id].disableSignatures = wikidataMapping[id].disableSignatures
            /\ linter' = linter

C17_DuplicateSilent == [][DuplicateSilent]_vars

\* The notices of the row's own encoding and relativity labels.
LabelNotices(uri, r) ==
    (IF RowEncoding(r) = UnknownEncoding
     THEN {[URI |-> uri, Value |-> encWDE01, Critical |-> FALSE]} ELSE {})
    \cup (IF r.relativityLabel = ""
          THEN {[URI |-> uri, Value |-> relWDE01, Critical |-> FALSE]} ELSE {})

DuplicateDiscarded ==
    \A id \in IDs :
        (LaterRow(id) /\ TextStored(id)) =>
            /\ wikidataMapping'[id].Signatures = wikidataMapping[id].Signatures
            /\ wikidataMapping'[id].disableSignatures = wikidataMapping[id].disableSignatures
            /\ linter' = linter \cup LabelNotices(wikidataMapping[id].URI, NextRow)

\* C17, amended: a later row of a non-disabled record whose normalized text
\* is already stored leaves the record's Signatures and flag unchanged; the
\* ledger gains just the notices of the row's own labels, "no encoding" for
\* a label that names no known encoding and "no relativity" for an empty
\* relativity, under the record's URI, and nothing else.
C17_DuplicateDiscarded == [][DuplicateDiscarded]_vars

\* A hexadecimal beginning-of-file row was stored, and the same pattern in
\* the other letter case, without encoding and relativity labels, was then
\* consumed: one sequence stored, both notices in the ledger.
C17_Witness ==
    /\ idx = 2
    /\ results[1] = Row(URI1, <<"A", "B">>, "hexadecimal", relativeBOF, <<>>, "literal")
    /\ results[2] = Row(URI1, <<"a", "b">>, "", "", <<>>, "literal")
    /\ ~ wikidataMapping[getID(URI1)].disableSignatures
    /\ Len(AllByteSequences(wikidataMapping[getID(URI1)].Signatures)) = 1
    /\ HasLinting(URI1, encWDE01)
    /\ HasLinting(URI1, relWDE01)

(***************************************************************************)
(* C18.  A new text whose relativity is not yet stored.                    *)
(***************************************************************************)
\* The last Signature of the record exists and none of its sequences has an
\* encoding incompatible with the row's.
LastSignatureCompatible(id) ==
    /\ Len(wikidataMapping[id].Signatures) > 0
    /\ LET seqs == wikidataMapping[id].Signatures[Len(wikidataMapping[id].Signatures)].ByteSequences
       IN  \A j \in DOMAIN seqs : ~ EncodingIncompatible(seqs[j].Encoding, RowEncoding(NextRow))

\* One ByteSequence is appended to the last Signature, the earlier ones stay.
AppendedToLast(id) ==
    LET old == wikidataMapping[id].Signatures
        new == wikidataMapping'[id].Signatures
    IN  /\ Len(new) = Len(old)
        /\ \A i \in 1..(Len(old) - 1) : new[i] = old[i]
        /\ Len(new[Len(new)].ByteSequences) = Len(old[Len(old)].ByteSequences) + 1
        /\ SubSeq(new[Len(new)].ByteSequences, 1, Len(old[Len(old)].ByteSequences))
              = old[Len(old)].ByteSequences
        /\ new[Len(new)].ByteSequences[Len(new[Len(new)].ByteSequences)].Signature
              = RowText(NextRow)

NewRelativityGrouped ==
    \A id \in IDs :
        (LaterRow(id) /\ ~ TextStored(id) /\ ~ RelativityStored(id)) =>
            IF LastSignatureCompatible(id)
            THEN AppendedToLast(id) /\ ~ wikidataMapping'[id].disableSignatures
            ELSE /\ wikidataMapping'[id].disableSignatures
                 /\ \E d \in linter' : d.URI = wikidataMapping[id].URI /\ d.Value = heuWDE01

\* C18: a later row of a non-disabled record with a new normalized text and
\* a relativity not yet stored appends one ByteSequence to the last Signature
\* when that Signature is encoding-compatible with the row, the earlier
\* Signatures unchanged; otherwise the record becomes disabled and a "bad
\* heuristic" diagnostic is recorded.
C18_NewRelativityGrouped == [][NewRelativityGrouped]_vars

(***************************************************************************)
(* C19.  A new text at a beginning-of-file relativity that is stored.      *)
(***************************************************************************)
\* The Signature list grows by one Signature that holds just the row's
\* ByteSequence; the Signatures before it stay.
NewSignatureAppended(id) ==
    LET old == wikidataMapping[id].Signatures
        new == wikidataMapping'[id].Signatures
    IN  /\ Len(new) = Len(old) + 1
        /\ SubSeq(new, 1, Len(old)) = old
        /\ Len(new[Len(new)].ByteSequences) = 1
        /\ new[Len(new)].ByteSequences[1].Signature = RowText(NextRow)
        /\ new[Len(new)].ByteSequences[1].Relativity = relativeBOF
        /\ new[Len(new)].ByteSequences[1].Encoding = RowEncoding(NextRow)
        /\ new[Len(new)].ByteSequences[1].Provenance = NextRow.referenceLabel
        /\ new[Len(new)].ByteSequences[1].Date = NextRow.date

RepeatedBOFStartsSignature ==
    \A id \in IDs :
        (/\ LaterRow(id) /\ ~ TextStored(id)
         /\ RowRelativity(NextRow) = relativeBOF /\ RelativityStored(id)) =>
            /\ NewSignatureAppended(id)
            /\ ~ wikidataMapping'[id].disableSignatures

\* C19: a later row of a non-disabled record with a new normalized text and
\* a beginning-of-file relativity that is already stored appends a new
\* Signature holding only the row's ByteSequence, leaves the existing
\* Signatures unchanged, and does so whatever the encodings are.
C19_RepeatedBOFStartsSignature == [][RepeatedBOFStartsSignature]_vars

\* Two beginning-of-file rows of one record consumed, a PRONOM pattern and
\* then a hexadecimal one: two Signatures of one sequence each, with
\* encodings that one Signature could not hold.
C19_Witness ==
    \E id \in IDs :
        /\ ~ wikidataMapping[id].disableSignatures
        /\ Len(wikidataMapping[id].Signatures) = 2
        /\ Len(wikidataMapping[id].Signatures[1].ByteSequences) = 1
        /\ Len(wikidataMapping[id].Signatures[2].ByteSequences) = 1
        /\ wikidataMapping[id].Signatures[1].ByteSequences[1].Relativity = relativeBOF
        /\ wikidataMapping[id].Signatures[2].ByteSequences[1].Relativity = relativeBOF
        /\ wikidataMapping[id].Signatures[1].ByteSequences[1].Encoding = PerlEncoding
        /\ wikidataMapping[id].Signatures[2].ByteSequences[1].Encoding = HexEncoding

(***************************************************************************)
(* C20.  A new text at a stored relativity other than beginning-of-file.   *)
(***************************************************************************)
RepeatedEOFDisables ==
    \A id \in IDs :
        (/\ LaterRow(id) /\ ~ TextStored(id)
         /\ RowRelativity(NextRow) # relativeBOF /\ RelativityStored(id)) =>
            /\ wikidataMapping'[id].disableSignatures
            /\ wikidataMapping'[id].Signatures = <<>>
            /\ \E d \in linter' : d.URI = wikidataMapping[id].URI /\ d.Value = heuWDE01

\* The record has two rows, both end-of-file rows with a signature, whose
\* patterns normalize to distinct texts.
TwoEOFRows(id) ==
    /\ Len(RowsOf(id)) = 2
    /\ \A k \in 1..2 :
           /\ RowsOf(id)[k].sig # <<>>
           /\ RowsOf(id)[k].relativityLabel = relativeEOF
           /\ NormalizedSig(RowsOf(id)[k]).err = nil
    /\ RowText(RowsOf(id)[1]) # RowText(RowsOf(id)[2])

TwoEOFRowsEndDisabled ==
    \A id \in IDs :
        (Finished /\ TwoEOFRows(id)) =>
            /\ addSignatures(results, id)
            /\ wikidataMapping[id].disableSignatures
            /\ wikidataMapping[id].Signatures = <<>>
            /\ HasLinting(wikidataMapping[id].URI, heuWDE01)

KnownRow(id) ==
    /\ pc = "main" /\ ~ panicked /\ idx < Len(results)
    /\ getID(NextRow.uri) = id
    /\ wikidataMapping[id].ID # ""

\* The list after the step is the list before it with the value at its end,
\* unless the list had the value.
Extended(before, after, value) ==
    after = IF \E i \in DOMAIN before : before[i] = value THEN before
            ELSE Append(before, value)

ClassificationContinues ==
    \A id \in IDs :
        KnownRow(id) =>
            /\ Extended(wikidataMapping[id].PRONOM, wikidataMapping'[id].PRONOM, NextRow.puid)
            /\ Extended(wikidataMapping[id].Extension, wikidataMapping'[id].Extension,
                        NextRow.extension)
            /\ Extended(wikidataMapping[id].Mimetype, wikidataMapping'[id].Mimetype,
                        NextRow.mimetype)
            /\ wikidataMapping[id].disableSignatures =>
                   /\ wikidataMapping'[id].disableSignatures
                   /\ wikidataMapping'[id].Signatures = wikidataMapping[id].Signatures

\* C21: every later row of a known identifier updates the three
\* classification lists with the row's values, whether or not the record is
\* disabled, and a disabled record keeps its flag and its Signature list.
C21_ClassificationContinues == [][ClassificationContinues]_vars

(***************************************************************************)
(* Vocabulary of the pre-flight claims: the list the check was called on.  *)
(***************************************************************************)
PreflightCalled == call.fn = "preValidateSignatures"

GivenSequences == call.args[1]

EncodingLabelsGiven == {GivenSequences[i].encoding : i \in DOMAIN GivenSequences}

RelativitiesGiven == {GivenSequences[i].relativity : i \in DOMAIN GivenSequences} \ {""}

\* How many of the rows have a relativity label.
NonBlankRelativities ==
    Cardinality({i \in DOMAIN GivenSequences : GivenSequences[i].relativity # ""})

(***************************************************************************)
(* C22.  More than two rows: one encoding label, one relativity.           *)
(***************************************************************************)
\* C22: called on more than two rows, the pre-flight check rejects whenever
\* the rows have more than one distinct encoding label, and whenever they
\* have more than one distinct non-blank relativity.
C22_MixedRowsRejected ==
    (PreflightCalled /\ Len(GivenSequences) > 2) =>
        /\ Cardinality(EncodingLabelsGiven) > 1 => ~ call.ret
        /\ Cardinality(RelativitiesGiven) > 1 => ~ call.ret

\* Three rows that validate, with one encoding label and two relativities,
\* were rejected.
C22_Witness ==
    /\ PreflightCalled
    /\ Len(GivenSequences) = 3
    /\ \A i \in 1..3 : GivenSequences[i].encoding = "PRONOM internal signature"
    /\ RelativitiesGiven = {relativeBOF, relativeEOF}
    /\ NonBlankRelativities = 3
    /\ ~ call.ret

(***************************************************************************)
(* C23.  Structural parity of the accepted inputs.                         *)
(***************************************************************************)
\* The relativity labels are all there or all missing.
RelativityParity ==
    NonBlankRelativities = 0 \/ NonBlankRelativities = Len(GivenSequences)

\* C23 as stated: every accepted input has structural parity, whatever its
\* row count, two rows with distinct signatures included.
C23_AcceptedHasParity == (PreflightCalled /\ call.ret) => RelativityParity

\* The input is two rows with distinct raw signatures.
TwoDistinctSignatures ==
    /\ Len(GivenSequences) = 2
    /\ GivenSequences[1].signature # GivenSequences[2].signature

\* C23, amended: every accepted input has structural parity, except that two
\* rows with distinct raw signatures are accepted before parity is looked at,
\* and so also when just one of them has a relativity label.
C23_AcceptedHasParityOrTwoSignatures ==
    (PreflightCalled /\ call.ret) => (RelativityParity \/ TwoDistinctSignatures)

\* Two rows with distinct signatures, one of them without a relativity label,
\* were accepted.
C23_Witness ==
    /\ PreflightCalled
    /\ call.ret
    /\ TwoDistinctSignatures
    /\ NonBlankRelativities = 1

(***************************************************************************)
(* C24.  A row that fails validation.                                      *)
(***************************************************************************)
\* The relativity label of the row is neither empty nor one of the two
\* known relativities.
UnknownRelativity(v) == v.relativity \notin {"", relativeBOF, relativeEOF}

\* The signature of the row cannot be normalized under its encoding.
NormalizationFails(v) == Parse(v.signature, LookupEncoding(v.encoding)).err # nil

\* C24: the pre-flight check rejects every input that has a row with an
\* unknown relativity label or a signature that fails normalization, whatever
\* the row count and the other rows.
C24_FailingRowRejected ==
    (/\ PreflightCalled
     /\ \E i \in DOMAIN GivenSequences :
            UnknownRelativity(GivenSequences[i]) \/ NormalizationFails(GivenSequences[i]))
        => ~ call.ret

\* Two rows with the two relativities and distinct signatures, the second a
\* hexadecimal pattern that is no hexadecimal, were rejected.
C24_Witness ==
    /\ PreflightCalled
    /\ Len(GivenSequences) = 2
    /\ RelativitiesGiven = {relativeBOF, relativeEOF}
    /\ ~ NormalizationFails(GivenSequences[1])
    /\ NormalizationFails(GivenSequences[2])
    /\ ~ call.ret

(***************************************************************************)
(* C25.  The diagnostics of the rows that fail validation.                 *)
(***************************************************************************)
\* The ledger has the diagnostic under a URI of the identifier.
RecordedFor(id, value) == \E d \in linter : getID(d.URI) = id /\ d.Value = value

\* C25: when the run is over, a record that has a signature row with an
\* unknown relativity label has "unknown relativity" in the ledger, and one
\* that has a signature row whose normalization fails has "cannot process
\* sequence" there.
C25_FailuresRecorded ==
    Finished =>
        \A id \in IDs :
            \A k \in DOMAIN SigRowsOf(id) :
                /\ validateAndReturnRelativity(SigRowsOf(id)[k].relativityLabel).lint = relWDE02
                       => RecordedFor(id, relWDE02)
                /\ NormalizedSig(SigRowsOf(id)[k]).lint = heuWDE02
                       => RecordedFor(id, heuWDE02)

(***************************************************************************)
(* C26.  A row touches the record of its identifier only.                  *)
(***************************************************************************)
RowIsLocal ==
    \A X \in IDs :
        (/\ pc = "main" /\ ~ panicked /\ idx < Len(results)
         /\ getID(NextRow.uri) = X) =>
            /\ \A id \in IDs \ {X} : wikidataMapping'[id] = wikidataMapping[id]
            /\ \A d \in linter' \ linter : getID(d.URI) = X

\* C26: processing a row of identifier X leaves the mapping entry of every
\* other identifier as it is and adds diagnostics to the ledger only under
\* URIs of X.
C26_RowIsLocal == [][RowIsLocal]_vars

\* Two records are stored, the second by the row consumed last; each has a
\* Signature and diagnostics of its own.
C26_Witness ==
    /\ idx = 2
    /\ getID(results[1].uri) = getID(URI1)
    /\ getID(results[2].uri) = getID(URI2)
    /\ Len(wikidataMapping[getID(URI1)].Signatures) = 1
    /\ Len(wikidataMapping[getID(URI2)].Signatures) = 1
    /\ RecordedFor(getID(URI1), proWDE01)
    /\ RecordedFor(getID(URI2), encWDE01)
    /\ ~ RecordedFor(getID(URI1), encWDE01)

(***************************************************************************)
(* C27.  The disabled flag and the "bad heuristic" diagnostic.             *)
(***************************************************************************)
\* C27: in every reachable state a stored record is disabled exactly when
\* the ledger holds "bad heuristic" under the record's URI.
C27_DisabledIffBadHeuristic ==
    \A id \in IDs :
        wikidataMapping[id].ID # "" =>
            (wikidataMapping[id].disableSignatures
                <=> HasLinting(wikidataMapping[id].URI, heuWDE01))

\* One record is stored, not disabled and without "bad heuristic"; the other
\* passed the pre-flight check and was disabled by its second row, with "bad
\* heuristic" in the ledger.
C27_Witness ==
    /\ Finished /\ idx = 3
    /\ results[1].uri = URI2
    /\ wikidataMapping[getID(URI2)].ID # ""
    /\ ~ wikidataMapping[getID(URI2)].disableSignatures
    /\ ~ HasLinting(URI2, heuWDE01)
    /\ results[2].uri = URI1 /\ results[3].uri = URI1
    /\ addSignatures(results, getID(URI1))
    /\ wikidataMapping[getID(URI1)].disableSignatures
    /\ HasLinting(URI1, heuWDE01)

(***************************************************************************)
(* C28.  The shape of the Signatures of a record that is not disabled.     *)
(***************************************************************************)
\* C28: in a record that is not disabled every Signature holds one or two
\* ByteSequences, the ByteSequences of one Signature have pairwise distinct
\* relativities, and at most one ByteSequence of the record is an
\* end-of-file one.
C28_SignatureShape ==
    \A id \in IDs :
        ~ wikidataMapping[id].disableSignatures =>
            /\ \A i \in DOMAIN wikidataMapping[id].Signatures :
                   LET seqs == wikidataMapping[id].Signatures[i].ByteSequences
                   IN  /\ Len(seqs) \in {1, 2}
                       /\ \A j, k \in DOMAIN seqs :
                              seqs[j].Relativity = seqs[k].Relativity => j = k
            /\ Cardinality({j \in DOMAIN AllByteSequences(wikidataMapping[id].Signatures) :
                    AllByteSequences(wikidataMapping[id].Signatures)[j].Relativity
                        = relativeEOF}) <= 1

\* A record holds one Signature of two sequences, the end-of-file one stored
\* first and the beginning-of-file one appended to it.
C28_Witness ==
    \E id \in IDs :
        /\ ~ wikidataMapping[id].disableSignatures
        /\ Len(wikidataMapping[id].Signatures) = 1
        /\ Len(wikidataMapping[id].Signatures[1].ByteSequences) = 2
        /\ wikidataMapping[id].Signatures[1].ByteSequences[1].Relativity = relativeEOF
        /\ wikidataMapping[id].Signatures[1].ByteSequences[2].Relativity = relativeBOF

(***************************************************************************)
(* C29.  The pre-flight verdict and repeated rows.                         *)
(***************************************************************************)
\* The four fields of the signature rows of the identifier, row by row, and
\* the distinct ones among them in order of first occurrence.
FourFieldsOf(rows) ==
    [k \in DOMAIN rows |->
        [signature |-> rows[k].sig, offset |-> rows[k].offset,
         encoding |-> rows[k].encodingLabel, relativity |-> rows[k].relativityLabel]]

FourFields(id) == FourFieldsOf(SigRowsOf(id))

DistinctTuples(id) == FirstAppearances(FourFields(id))

\* The row consumed last is the first of its identifier: newRecord has just
\* stored the record, after addSignatures ran on the rows of the identifier.
JustCreated(id) ==
    /\ pc = "main" /\ idx > 0
    /\ getID(results[idx].uri) = id
    /\ \A k \in 1..(idx - 1) : getID(results[k].uri) # id

\* The check counted the tuples of the list and gave the verdict on it, and
\* the record, if its row has a signature, is disabled exactly when that
\* verdict is a rejection.
VerdictOf(id, tuples) ==
    /\ Len(preProcessedSequencesOf(results, id, Len(results))) = Len(tuples)
    /\ addSignatures(results, id) = (tuples # <<>> /\ preValidateSignatures(tuples))
    /\ results[idx].sig # <<>> =>
           (wikidataMapping[id].disableSignatures <=> ~ preValidateSignatures(tuples))

\* C29: the check of a record counts the distinct (signature, offset,
\* encoding, relativity) tuples of its signature rows and its verdict is the
\* verdict on their list in order of first occurrence, however often a tuple
\* is repeated; a record created from a signature row is disabled exactly
\* when that verdict is a rejection.
C29_VerdictOfDistinctTuples ==
    \A id \in IDs : JustCreated(id) => VerdictOf(id, DistinctTuples(id))

\* A record of three signature rows, two of them alike in the four fields and
\* apart in the registry code, was created from its first row: two tuples are
\* counted and accepted, where the three rows as they are would be rejected.
C29_Witness ==
    \E id \in IDs :
        /\ JustCreated(id)
        /\ Len(SigRowsOf(id)) = 3
        /\ Len(DistinctTuples(id)) = 2
        /\ \E j, k \in 1..3 :
               /\ FourFields(id)[j] = FourFields(id)[k]
               /\ SigRowsOf(id)[j].puid # SigRowsOf(id)[k].puid
        /\ addSignatures(results, id)
        /\ ~ preValidateSignatures(FourFields(id))
        /\ Len(wikidataMapping[id].Signatures) = 1

====
